---- MODULE Spec2Model ----
(***************************************************************************)
(* State-machine model of baselines/toxic_comments/sngp.py: the flag       *)
(* validator, main()'s start-up (checkpoint restore or pretrained load),   *)
(* the prediction-only path and the train / evaluate / checkpoint loop.    *)
(*                                                                         *)
(* Abstractions.  A batch is identified by the dataset it comes from and   *)
(* its position in the iterator's stream.  The model's weights and its     *)
(* precision matrix are represented by the sequence of training batches    *)
(* that have been folded into them, a metric accumulator by the sequence   *)
(* of contributions it has received since its last reset.  A process may   *)
(* be terminated and launched again with the same flags; the checkpoint    *)
(* directories are the only state that survives a launch.                  *)
(***************************************************************************)
EXTENDS Integers, Sequences, FiniteSets, TLC

\* ------------------------------------------------------------------ bounds
\* train_epochs ranges over 0..MaxEpochs; a program is launched at most
\* MaxRuns times on the same directories.
MaxEpochs == 3
MaxRuns == 3

\* ------------------------------------------------------- enumerated inputs
None == "None"
CheckpointIntervals == {-1, 1, 2}
EvaluationIntervals == {0, 1, 2}
NumTrainExamples == {2, 5}
Fractions == {"0.0", "0.01"}
DatasetNames == {"ind", "ood", "ood_identity"}
NumTestExamplesProfiles ==
  { [ind |-> 5, ood |-> 2, ood_identity |-> 3],
    [ind |-> 2, ood |-> 4, ood_identity |-> 1] }
EvalCheckpointDirs == {None, "eval_dir"}
\* strategy.num_replicas_in_sync: the cores the accelerator offers.
ReplicaCounts == {1, 2}
BertFlagProfiles ==
  [bert_dir : {None, "", "bert"}, bert_config_dir : {None, "", "cfg"},
   bert_ckpt_dir : {None, "", "ckpt"}]

\* --------------------------------------------------------------- constants
_IDENTITY_LABELS ==
  << "male", "female", "transgender", "other_gender", "heterosexual",
     "homosexual_gay_or_lesbian", "bisexual", "other_sexual_orientation",
     "christian", "jewish", "muslim", "hindu", "buddhist", "atheist",
     "other_religion", "black", "white", "asian", "latino",
     "other_race_or_ethnicity", "physical_disability",
     "intellectual_or_learning_disability", "psychiatric_or_mental_illness",
     "other_disability" >>

\* dataset_builders / test_datasets: a dict, iterated in insertion order.
dataset_builders == << "ind", "ood", "ood_identity" >>

TrainMetricNames ==
  { "train/negative_log_likelihood", "train/accuracy", "train/loss", "train/ece" }
TestMetricBases ==
  { "test/nll", "test/auroc", "test/aupr", "test/brier", "test/ece",
    "test/eval_time", "test/stddev", "test/acc" }

\* 'test/nll' for 'ind', 'test/nll_<name>' otherwise: a name is the triple of
\* the base, the fraction (collab_acc only) and the dataset suffix.
TestMetricName(base, dataset_name) ==
  IF dataset_name = "ind" THEN << base, "", "" >> ELSE << base, "", dataset_name >>

\* Variant: the fraction is left out of the name, so the fractions of a
\* dataset share one accumulator.
CollabMetricName_SharedByFractions(fraction, dataset_name) ==
  IF dataset_name = "ind" THEN << "test_collab_acc/collab_acc", "", "" >>
  ELSE << "test_collab_acc/collab_acc", "", dataset_name >>

\* 'test_collab_acc/collab_acc_<fraction>' and '..._<fraction>_<name>'.
CollabMetricName(fraction, dataset_name) ==
  IF dataset_name = "ind" THEN << "test_collab_acc/collab_acc", fraction, "" >>
  ELSE << "test_collab_acc/collab_acc", fraction, dataset_name >>

TrainMetrics == { << n, "", "" >> : n \in TrainMetricNames }
TestMetricsOf(d) ==
  { TestMetricName(b, d) : b \in TestMetricBases }
    \cup { CollabMetricName(f, d) : f \in Fractions }
MetricNames == TrainMetrics \cup UNION { TestMetricsOf(d) : d \in DatasetNames }

\* The accumulators a test_step on dataset d calls update_state on
\* ('test/eval_time' is registered but never updated).
TestStepUpdates(d) ==
  { TestMetricName(b, d) : b \in TestMetricBases \ {"test/eval_time"} }
    \cup { CollabMetricName(f, d) : f \in Fractions }

VARIABLES
  FLAGS,            \* the parsed command-line flags of the launch
  ds_info,          \* num_train_examples / num_test_examples of the builders
  strategy,         \* the distribution strategy: [num_replicas_in_sync]
  fs,               \* checkpoints in output_dir and in eval_checkpoint_dir
  runs,             \* number of launches so far
  pc,               \* position of the process in app.run / main
  made_output_dir,  \* tf.io.gfile.makedirs(output_dir) executed by this launch
  steps_per_epoch,
  steps_per_eval,
  model,            \* [built, encoder, weights, precision]
  optimizer,        \* [iterations]
  restored,         \* checkpoint.restore executed by this launch
  loaded_bert,      \* load_bert_weight_from_ckpt executed by this launch
  initial_epoch,
  metrics,          \* name -> contributions since the last reset
  epoch,
  step,
  ds_index,         \* position in dataset_builders of the current dataset
  train_iterator,   \* [name, pos, exhausted]
  test_iterator,    \* [name, pos, exhausted]
  calls,            \* step function -> the training= arguments it passed
  train_steps,      \* train_step calls completed by this launch
  eval_steps,       \* dataset -> test_step calls completed since the train
                    \* steps of the latest epoch ended
  final_eval_calls, \* dataset -> final_eval_step calls made by this launch
  texts_all, logits_all, labels_all, additional_labels_all_dict,
  summaries,        \* tf.summary.scalar records written by this launch
  saved_checkpoints,\* epochs after which this launch saved a checkpoint
  saved_predictions,\* file name -> array saved by save_prediction
  saved_model,      \* model.save executed by this launch
  step_in,          \* the batch handed to the latest step_fn (StepSpec)
  step_out          \* the values that step_fn computed from it (StepSpec)

vars == << FLAGS, ds_info, strategy, fs, runs, pc, made_output_dir, steps_per_epoch,
           steps_per_eval, model, optimizer, restored, loaded_bert,
           initial_epoch, metrics, epoch, step, ds_index, train_iterator,
           test_iterator, calls, train_steps, eval_steps, final_eval_calls,
           texts_all, logits_all, labels_all, additional_labels_all_dict,
           summaries, saved_checkpoints, saved_predictions, saved_model,
           step_in, step_out >>

env == << FLAGS, ds_info, strategy, runs, step_in, step_out >>
setup == << made_output_dir, steps_per_epoch, steps_per_eval, restored,
            loaded_bert, initial_epoch >>
pred == << final_eval_calls, texts_all, logits_all, labels_all,
           additional_labels_all_dict, saved_predictions >>
outs == << summaries, saved_checkpoints, saved_model >>

\* ------------------------------------------------------------ pure helpers

\* Variant: only None is false, the empty string counts as given.
Truthy_NotNone(x) == x /= None

\* Python truthiness of an optional string: None and '' are false.
Truthy(x) == x /= None /\ x /= ""

\* Variant: the validator demands eval_checkpoint_dir in every mode.
_check_always_requires_dir(flags_dict) == flags_dict.eval_checkpoint_dir /= None

\* The multi-flag validator registered on prediction_mode, eval_checkpoint_dir.
_check_checkpoint_dir_for_prediction_mode(flags_dict) ==
  (~ flags_dict.prediction_mode) \/ (flags_dict.eval_checkpoint_dir /= None)

\* os.path.join(dir, name); a path is the tuple of its components.
PathJoin(dir, name) == << dir, name >>

\* raised is set when the function raises ValueError; else (config, ckpt) is
\* what it returns.
resolve_bert_ckpt_and_config_dir(bert_dir, bert_config_dir, bert_ckpt_dir) ==
  LET missing_ckpt_or_config_dir ==
        ~ (Truthy(bert_ckpt_dir) /\ Truthy(bert_config_dir))
  IN  IF missing_ckpt_or_config_dir /\ ~ Truthy(bert_dir)
      THEN [raised |-> TRUE]
      ELSE [raised |-> FALSE,
            config |-> IF missing_ckpt_or_config_dir /\ ~ Truthy(bert_config_dir)
                       THEN PathJoin(bert_dir, "bert_config.json")
                       ELSE << bert_config_dir >>,
            ckpt |-> IF missing_ckpt_or_config_dir /\ ~ Truthy(bert_ckpt_dir)
                     THEN PathJoin(bert_dir, "bert_model.ckpt")
                     ELSE << bert_ckpt_dir >>]

ResolvedBert ==
  resolve_bert_ckpt_and_config_dir(
    FLAGS.bert_dir, FLAGS.bert_config_dir, FLAGS.bert_ckpt_dir)

\* batch_size = per_core_batch_size * num_cores; test_batch_size = batch_size
batch_size == FLAGS.per_core_batch_size * FLAGS.num_cores
test_batch_size == batch_size

\* steps_per_epoch = num_train_examples // batch_size
StepsPerEpoch == ds_info.num_train_examples \div batch_size

\* Variant: the last, partial batch of a dataset is counted as a step.
StepsPerEval_RoundedUp ==
  [ d \in DatasetNames |->
      (ds_info.num_test_examples[d] + test_batch_size - 1) \div test_batch_size ]

\* steps_per_eval[dataset_name] = num_test_examples // test_batch_size
StepsPerEval ==
  [ d \in DatasetNames |-> ds_info.num_test_examples[d] \div test_batch_size ]

\* The directory main looks in for the latest checkpoint.
CheckpointDir ==
  IF FLAGS.prediction_mode THEN FLAGS.eval_checkpoint_dir ELSE "output_dir"

\* tf.train.latest_checkpoint: the most recent checkpoint of a directory;
\* found is unset when it holds none (the call returns None).
latest_checkpoint(dir) ==
  IF dir \notin DOMAIN fs \/ Len(fs[dir]) = 0
  THEN [found |-> FALSE]
  ELSE [found |-> TRUE, ckpt |-> fs[dir][Len(fs[dir])]]

\* Variant: the step counter taken for the epoch, without the division.
InitialEpochOf_NoDivision(iterations) == iterations

\* Variant: the resumed launch starts one epoch later.
InitialEpochOf_NextEpoch(iterations) == iterations \div steps_per_epoch + 1

\* initial_epoch = optimizer.iterations.numpy() // steps_per_epoch
InitialEpochOf(iterations) == iterations \div steps_per_epoch

\* Variant: the condition of the checkpoint step, on the epochs completed.
EvaluationDue_OnCompleted(e) == (e + 1) % FLAGS.evaluation_interval = 0

\* epoch % FLAGS.evaluation_interval == 0
EvaluationDue(e) == e % FLAGS.evaluation_interval = 0

\* Variant: the interval test applied to epoch instead of epoch + 1.
CheckpointDue_OffByOne(e) ==
  /\ FLAGS.checkpoint_interval > 0
  /\ e % FLAGS.checkpoint_interval = 0

\* FLAGS.checkpoint_interval > 0 and (epoch + 1) % FLAGS.checkpoint_interval == 0
CheckpointDue(e) ==
  /\ FLAGS.checkpoint_interval > 0
  /\ (e + 1) % FLAGS.checkpoint_interval = 0

\* Variant: every dataset is taken to carry the identity labels.
HasIdentity_AnyDataset(dataset_name) == TRUE

\* 'identity' in dataset_name
HasIdentity(dataset_name) == dataset_name \in {"ood_identity"}

\* model(features, training=...): the forward pass of the GP layer folds the
\* batch into the precision matrix when, and only when, training is set.
Forward(m, batch, training) ==
  IF training THEN [m EXCEPT !.precision = Append(@, batch)] ELSE m

\* optimizer.apply_gradients, called by step_fn on every replica: the
\* replicas' gradients are summed and applied in one update of the weights.
ApplyGradients(m, batch) == [m EXCEPT !.weights = Append(@, batch)]

\* Variant: every replica's apply_gradients call ticks the step counter.
Tick_PerReplica(opt) ==
  [opt EXCEPT !.iterations = @ + strategy.num_replicas_in_sync]

\* The update ticks optimizer.iterations once, whatever the replica count.
Tick(opt) == [opt EXCEPT !.iterations = @ + 1]

\* Variant: the pretrained encoder weights are not loaded.
LoadBertWeights_Skipped(m, bert_ckpt_dir) == m

\* bert_utils.load_bert_weight_from_ckpt(bert_model=bert_encoder,
\* bert_ckpt_dir=bert_ckpt_dir, ...): the encoder takes the pretrained weights.
LoadBertWeights(m, bert_ckpt_dir) == [m EXCEPT !.encoder = bert_ckpt_dir]

\* `if FLAGS.prediction_mode: ... else: ...` after the step functions.
ModeBranch == IF FLAGS.prediction_mode THEN "predict" ELSE "train"

\* Variant: the training loop is not guarded by else and runs after the
\* prediction loop.
PredictionExit_FallsThrough == "train"

\* Where main goes when the prediction loop over the datasets ends: the
\* training loop is the else branch, so main returns.
PredictionExit == "done"

\* Variant: every registered accumulator is updated, named or not.
UpdateState_Every(ms, names, contribution) ==
  [ n \in DOMAIN ms |-> Append(ms[n], contribution) ]

\* metric.update_state on every accumulator of `names`.
UpdateState(ms, names, contribution) ==
  [ n \in DOMAIN ms |-> IF n \in names THEN Append(ms[n], contribution) ELSE ms[n] ]

\* Variant: the evaluation branch goes on to the checkpoint step, past the
\* reset.
AfterSummary_SkipsReset == "checkpoint"

\* The evaluation branch ends with the summary write and control falls to
\* the reset loop that follows the `if`.
AfterSummary == "reset"

\* Variant: only the test accumulators are reset.
ResetStates_TestOnly(ms) ==
  [ n \in DOMAIN ms |-> IF n \in TrainMetrics THEN ms[n] ELSE << >> ]

\* metric.reset_states() on every accumulator.
ResetStates(ms) == [ n \in DOMAIN ms |-> << >> ]

\* The metrics dict once the test/* and collab_acc accumulators are added.
EmptyMetrics == [ n \in MetricNames |-> << >> ]

\* iter(dataset): a fresh iterator at the first batch of the stream.
Iter(name) == [name |-> name, pos |-> 0, exhausted |-> FALSE]
NoIterator == Iter(None)

\* The identity of the batch next(iterator) returns: the dataset and the
\* position in the stream.  Positions of the training stream are distinct
\* batches: the training split is built with a shuffle buffer and is
\* shuffled anew on every pass over the data.
BatchAt(it) == << it.name, it.pos >>

UnbuiltModel == [built |-> FALSE, encoder |-> << >>, weights |-> << >>, precision |-> << >>]

ZeroCalls == [ d \in DatasetNames |-> 0 ]
NoCalls == [ f \in {"train_step", "test_step", "final_eval_step"} |-> {} ]

\* ------------------------------------------------------------------- Init

\* gp_mean_field_factor is in units of 1e-4 (the default is 1e-4) and
\* ece_label_threshold in tenths (the default is 0.7).
TrainingFlags(ci, ei, te, ecd, bert) ==
  [ prediction_mode |-> FALSE, eval_checkpoint_dir |-> ecd,
    checkpoint_interval |-> ci, evaluation_interval |-> ei, train_epochs |-> te,
    per_core_batch_size |-> 1, num_cores |-> 2,
    use_gp_layer |-> TRUE, gp_mean_field_factor |-> 1,
    ece_label_threshold |-> 7, num_mc_samples |-> 1,
    bert_dir |-> bert.bert_dir, bert_config_dir |-> bert.bert_config_dir,
    bert_ckpt_dir |-> bert.bert_ckpt_dir ]

DefaultBert == [bert_dir |-> "bert", bert_config_dir |-> None, bert_ckpt_dir |-> None]

\* A checkpoint left in eval_checkpoint_dir by an earlier training run.
PriorCheckpoint ==
  [ model |-> [built |-> TRUE, encoder |-> PathJoin("bert", "bert_model.ckpt"),
               weights |-> << << "train", 0 >>, << "train", 1 >> >>,
               precision |-> << << "train", 0 >>, << "train", 1 >> >>],
    optimizer |-> [iterations |-> 2] ]

\* The launches explored: every training configuration with the default
\* BERT flags; every flag-validation and BERT-flag combination on one small
\* training configuration; every prediction configuration.
Launches ==
  { << TrainingFlags(ci, ei, te, None, DefaultBert),
       [num_train_examples |-> nt, num_test_examples |-> np],
       [output_dir |-> << >>, eval_dir |-> << >>] >> :
      ci \in CheckpointIntervals, ei \in EvaluationIntervals,
      te \in 0..MaxEpochs, nt \in NumTrainExamples, np \in NumTestExamplesProfiles }
  \cup
  { << TrainingFlags(1, 1, 1, ecd, bert),
       [num_train_examples |-> 2,
        num_test_examples |-> [ind |-> 2, ood |-> 4, ood_identity |-> 1]],
       [output_dir |-> << >>, eval_dir |-> << >>] >> :
      ecd \in EvalCheckpointDirs, bert \in BertFlagProfiles }
  \cup
  { << [TrainingFlags(1, 1, 1, ecd, bert) EXCEPT !.prediction_mode = TRUE],
       [num_train_examples |-> nt, num_test_examples |-> np],
       [output_dir |-> << >>, eval_dir |-> prior] >> :
      ecd \in EvalCheckpointDirs, bert \in BertFlagProfiles,
      nt \in NumTrainExamples, np \in NumTestExamplesProfiles,
      prior \in { << >>, << PriorCheckpoint >> } }

\* No step_fn has been looked at.
NoStep == [fn |-> None]

\* The state of a process that has just been started.
Fresh ==
  /\ made_output_dir = FALSE
  /\ steps_per_epoch = 0
  /\ steps_per_eval = ZeroCalls
  /\ model = UnbuiltModel
  /\ optimizer = [iterations |-> 0]
  /\ restored = FALSE
  /\ loaded_bert = FALSE
  /\ initial_epoch = 0
  /\ metrics = << >>
  /\ epoch = 0
  /\ step = 0
  /\ ds_index = 1
  /\ train_iterator = NoIterator
  /\ test_iterator = NoIterator
  /\ calls = NoCalls
  /\ train_steps = 0
  /\ eval_steps = ZeroCalls
  /\ final_eval_calls = ZeroCalls
  /\ texts_all = << >>
  /\ logits_all = << >>
  /\ labels_all = << >>
  /\ additional_labels_all_dict = << >>
  /\ summaries = << >>
  /\ saved_checkpoints = {}
  /\ saved_predictions = << >>
  /\ saved_model = FALSE

Init ==
  /\ \E l \in Launches : FLAGS = l[1] /\ ds_info = l[2] /\ fs = l[3]
  /\ \E r \in ReplicaCounts : strategy = [num_replicas_in_sync |-> r]
  /\ runs = 1
  /\ pc = "validate"
  /\ Fresh
  /\ step_in = NoStep
  /\ step_out = NoStep

\* ------------------------------------------------------- start-up actions

\* app.run(main): the registered flag validators run before main is called.
ValidateFlags ==
  /\ pc = "validate"
  /\ pc' = IF _check_checkpoint_dir_for_prediction_mode(FLAGS)
           THEN "main" ELSE "rejected"
  /\ UNCHANGED << env, fs, setup, model, optimizer, metrics, epoch, step,
                  ds_index, train_iterator, test_iterator, calls, train_steps,
                  eval_steps, pred, outs >>

\* main, up to the construction of the checkpoint object: output directory,
\* dataset builders, step counts, model and optimizer, the train/* metrics.
\* resolve_bert_ckpt_and_config_dir raises before the model is built.
MainSetup ==
  /\ pc = "main"
  /\ made_output_dir' = TRUE
  /\ steps_per_epoch' = StepsPerEpoch
  /\ steps_per_eval' = StepsPerEval
  /\ IF ResolvedBert.raised
     THEN /\ pc' = "aborted"
          /\ UNCHANGED << model, metrics >>
     ELSE /\ pc' = "checkpoint_lookup"
          /\ model' = [model EXCEPT !.built = TRUE]
          /\ metrics' = [ n \in TrainMetrics |-> << >> ]
  /\ UNCHANGED << env, fs, optimizer, restored, loaded_bert, initial_epoch,
                  epoch, step, ds_index, train_iterator, test_iterator, calls,
                  train_steps, eval_steps, pred, outs >>

\* Restore the latest checkpoint, or else load the pretrained encoder; then
\* register the test/* and collab_acc accumulators.
RestoreOrLoad ==
  /\ pc = "checkpoint_lookup"
  /\ LET latest == latest_checkpoint(CheckpointDir)
     IN  IF latest.found
         THEN /\ model' = latest.ckpt.model
              /\ optimizer' = latest.ckpt.optimizer
              /\ restored' = TRUE
              /\ initial_epoch' = InitialEpochOf(latest.ckpt.optimizer.iterations)
              /\ UNCHANGED loaded_bert
         ELSE /\ model' = LoadBertWeights(model, ResolvedBert.ckpt)
              /\ loaded_bert' = TRUE
              /\ UNCHANGED << optimizer, restored, initial_epoch >>
  /\ metrics' = EmptyMetrics
  /\ pc' = ModeBranch
  /\ UNCHANGED << env, fs, made_output_dir, steps_per_epoch, steps_per_eval,
                  epoch, step, ds_index, train_iterator, test_iterator, calls,
                  train_steps, eval_steps, pred, outs >>

\* ------------------------------------------------------- batches and steps

Range(seq) == { seq[i] : i \in DOMAIN seq }

\* The columns of a batch: the identity-labelled dataset alone carries the
\* per-identity label columns.
Fields(name) ==
  {"input_ids", "input_mask", "segment_ids", "labels"}
    \cup (IF HasIdentity(name) THEN Range(_IDENTITY_LABELS) ELSE {})

\* The batch next(iterator) returns: field name -> array.
Inputs(it) == [ f \in Fields(it.name) |-> << f, it.name, it.pos >> ]

create_feature_and_label(inputs) ==
  [ features |-> << inputs["input_ids"], inputs["input_mask"], inputs["segment_ids"] >>,
    labels |-> inputs["labels"],
    additional_labels |->
      [ l \in Range(_IDENTITY_LABELS) \cap DOMAIN inputs |-> inputs[l] ] ]

\* Variant: test_step runs the model in training mode.
TestStepTraining_True == TRUE

\* The training= argument each step function passes to the model.
TrainStepTraining == TRUE
TestStepTraining == FALSE
FinalEvalStepTraining == FALSE

\* Variant: the logits come back without the row of the batch.
FinalEvalResult_NoLogitsRow(inputs, name, pos) ==
  LET fl == create_feature_and_label(inputs)
  IN  [ texts |-> << inputs["input_ids"] >>,
        logits |-> << >>,
        labels |-> << fl.labels >>,
        additional_labels |->
          [ l \in DOMAIN fl.additional_labels |-> << fl.additional_labels[l] >> ] ]

\* What final_eval_step returns for a batch: one row per batch.
FinalEvalResult(inputs, name, pos) ==
  LET fl == create_feature_and_label(inputs)
  IN  [ texts |-> << inputs["input_ids"] >>,
        logits |-> << << "logits", name, pos >> >>,
        labels |-> << fl.labels >>,
        additional_labels |->
          [ l \in DOMAIN fl.additional_labels |-> << fl.additional_labels[l] >> ] ]

\* tf.concat(values, axis=0) of a non-empty list of arrays.
RECURSIVE Concat(_)
Concat(values) ==
  IF Len(values) = 0 THEN << >> ELSE Head(values) \o Concat(Tail(values))

\* next(iterator) may return the next batch unless the iterator is exhausted.
CanFetch(it) == ~ it.exhausted
Advance(it) == [it EXCEPT !.pos = @ + 1]
Exhaust(it) == [it EXCEPT !.exhausted = TRUE]

\* -------------------------------------------------------- prediction mode

\* Head of `for dataset_name, test_dataset in test_datasets.items()` in
\* prediction mode: a fresh iterator and empty result lists, or exit.
PredictNextDataset ==
  /\ pc = "predict"
  /\ IF ds_index <= Len(dataset_builders)
     THEN LET dataset_name == dataset_builders[ds_index]
          IN  /\ test_iterator' = Iter(dataset_name)
              /\ texts_all' = << >>
              /\ logits_all' = << >>
              /\ labels_all' = << >>
              /\ additional_labels_all_dict' =
                   IF HasIdentity(dataset_name)
                   THEN [ l \in Range(_IDENTITY_LABELS) |-> << >> ]
                   ELSE << >>
              /\ step' = 0
              /\ pc' = "final_eval"
     ELSE /\ pc' = PredictionExit
          /\ UNCHANGED << test_iterator, texts_all, logits_all, labels_all,
                          additional_labels_all_dict, step >>
  /\ UNCHANGED << env, fs, setup, model, optimizer, metrics, epoch, ds_index,
                  train_iterator, calls, train_steps, eval_steps,
                  final_eval_calls, saved_predictions, outs >>

\* One iteration of `for step in range(steps_per_eval[dataset_name])`:
\* final_eval_step, whose OutOfRangeError is caught and skipped.
FinalEvalStep ==
  /\ pc = "final_eval"
  /\ step < steps_per_eval[dataset_builders[ds_index]]
  /\ LET dataset_name == dataset_builders[ds_index]
     IN  /\ final_eval_calls' = [final_eval_calls EXCEPT ![dataset_name] = @ + 1]
         /\ \/ /\ CanFetch(test_iterator)
               /\ LET r == FinalEvalResult(Inputs(test_iterator), dataset_name,
                                           test_iterator.pos)
                  IN  /\ model' = Forward(model, BatchAt(test_iterator),
                                          FinalEvalStepTraining)
                      /\ calls' = [calls EXCEPT !["final_eval_step"] =
                                     @ \cup {FinalEvalStepTraining}]
                      /\ texts_all' = Append(texts_all, r.texts)
                      /\ logits_all' = Append(logits_all, r.logits)
                      /\ labels_all' = Append(labels_all, r.labels)
                      /\ additional_labels_all_dict' =
                           IF HasIdentity(dataset_name)
                           THEN [ l \in Range(_IDENTITY_LABELS) |->
                                    Append(additional_labels_all_dict[l],
                                           r.additional_labels[l]) ]
                           ELSE additional_labels_all_dict
                      /\ test_iterator' = Advance(test_iterator)
            \/ /\ test_iterator' = Exhaust(test_iterator)
               /\ UNCHANGED << model, calls, texts_all, logits_all, labels_all,
                               additional_labels_all_dict >>
  /\ step' = step + 1
  /\ UNCHANGED << env, fs, pc, setup, optimizer, metrics, epoch, ds_index,
                  train_iterator, train_steps, eval_steps, saved_predictions,
                  outs >>

\* After the step loop: concatenate and save the arrays of the dataset.
\* tf.concat raises on an empty list, which ends the process.
SavePredictions ==
  /\ pc = "final_eval"
  /\ step >= steps_per_eval[dataset_builders[ds_index]]
  /\ LET dataset_name == dataset_builders[ds_index]
         additional_labels_all ==
           IF DOMAIN additional_labels_all_dict /= {}
           THEN [ i \in DOMAIN _IDENTITY_LABELS |->
                    Concat(additional_labels_all_dict[_IDENTITY_LABELS[i]]) ]
           ELSE << >>
     IN  IF Len(texts_all) = 0
         THEN /\ pc' = "aborted"
              /\ UNCHANGED << saved_predictions, ds_index >>
         ELSE /\ saved_predictions' =
                   saved_predictions
                     @@ (<< "texts", dataset_name >> :> Concat(texts_all))
                     @@ (<< "labels", dataset_name >> :> Concat(labels_all))
                     @@ (<< "logits", dataset_name >> :> Concat(logits_all))
                     @@ (IF HasIdentity(dataset_name)
                         THEN << "additional_labels", dataset_name >>
                                :> additional_labels_all
                         ELSE << >>)
              /\ ds_index' = ds_index + 1
              /\ pc' = "predict"
  /\ UNCHANGED << env, fs, setup, model, optimizer, metrics, epoch, step,
                  train_iterator, test_iterator, calls, train_steps, eval_steps,
                  final_eval_calls, texts_all, logits_all, labels_all,
                  additional_labels_all_dict, outs >>

\* ---------------------------------------------------------- training mode

\* train_iterator = iter(train_dataset); the epoch loop starts at
\* initial_epoch.
TrainBegin ==
  /\ pc = "train"
  /\ train_iterator' = Iter("train")
  /\ epoch' = initial_epoch
  /\ pc' = "epoch"
  /\ UNCHANGED << env, fs, setup, model, optimizer, metrics, step, ds_index,
                  test_iterator, calls, train_steps, eval_steps, pred, outs >>

\* Head of `for epoch in range(initial_epoch, FLAGS.train_epochs)`.
EpochHead ==
  /\ pc = "epoch"
  /\ IF epoch < FLAGS.train_epochs
     THEN /\ pc' = "train_step"
          /\ step' = 0
     ELSE /\ pc' = "save_model"
          /\ UNCHANGED step
  /\ UNCHANGED << env, fs, setup, model, optimizer, metrics, epoch, ds_index,
                  train_iterator, test_iterator, calls, train_steps, eval_steps,
                  pred, outs >>

\* One iteration of `for step in range(steps_per_epoch)`: train_step.  The
\* OutOfRangeError of next(iterator) is not caught and ends the process.
TrainStep ==
  /\ pc = "train_step"
  /\ step < steps_per_epoch
  /\ \/ /\ CanFetch(train_iterator)
        /\ LET batch == BatchAt(train_iterator)
           IN  /\ model' = ApplyGradients(
                             Forward(model, batch, TrainStepTraining), batch)
               /\ optimizer' = Tick(optimizer)
               /\ calls' = [calls EXCEPT !["train_step"] = @ \cup {TrainStepTraining}]
               /\ metrics' = UpdateState(metrics, TrainMetrics,
                                         << "train", epoch, step >>)
               /\ train_iterator' = Advance(train_iterator)
               /\ train_steps' = train_steps + 1
               /\ step' = step + 1
               /\ UNCHANGED pc
     \/ /\ train_iterator' = Exhaust(train_iterator)
        /\ pc' = "aborted"
        /\ UNCHANGED << model, optimizer, calls, metrics, train_steps, step >>
  /\ UNCHANGED << env, fs, setup, epoch, ds_index, test_iterator, eval_steps,
                  pred, outs >>

\* `if epoch % FLAGS.evaluation_interval == 0` after the train steps.  For
\* an interval of 0 the modulo raises ZeroDivisionError, which is not caught
\* and ends the process.
EvalCheck ==
  /\ pc = "train_step"
  /\ step >= steps_per_epoch
  /\ IF FLAGS.evaluation_interval = 0
     THEN /\ pc' = "aborted"
          /\ UNCHANGED ds_index
     ELSE IF EvaluationDue(epoch)
     THEN /\ pc' = "eval_dataset"
          /\ ds_index' = 1
     ELSE /\ pc' = "reset"
          /\ UNCHANGED ds_index
  /\ eval_steps' = ZeroCalls
  /\ UNCHANGED << env, fs, setup, model, optimizer, metrics, epoch, step,
                  train_iterator, test_iterator, calls, train_steps, pred, outs >>

\* Head of `for dataset_name, test_dataset in test_datasets.items()` in the
\* training loop: a fresh test iterator, or on to the summary.
EvalNextDataset ==
  /\ pc = "eval_dataset"
  /\ IF ds_index <= Len(dataset_builders)
     THEN /\ test_iterator' = Iter(dataset_builders[ds_index])
          /\ step' = 0
          /\ pc' = "test_step"
     ELSE /\ pc' = "summary"
          /\ UNCHANGED << test_iterator, step >>
  /\ UNCHANGED << env, fs, setup, model, optimizer, metrics, epoch, ds_index,
                  train_iterator, calls, train_steps, eval_steps, pred, outs >>

\* One iteration of `for step in range(steps_per_eval[dataset_name])`:
\* test_step.  Its OutOfRangeError is not caught here.
TestStep ==
  /\ pc = "test_step"
  /\ step < steps_per_eval[dataset_builders[ds_index]]
  /\ LET dataset_name == dataset_builders[ds_index]
     IN  \/ /\ CanFetch(test_iterator)
            /\ model' = Forward(model, BatchAt(test_iterator), TestStepTraining)
            /\ calls' = [calls EXCEPT !["test_step"] = @ \cup {TestStepTraining}]
            /\ metrics' = UpdateState(metrics, TestStepUpdates(dataset_name),
                                      << dataset_name, epoch, step >>)
            /\ test_iterator' = Advance(test_iterator)
            /\ eval_steps' = [eval_steps EXCEPT ![dataset_name] = @ + 1]
            /\ step' = step + 1
            /\ UNCHANGED pc
         \/ /\ test_iterator' = Exhaust(test_iterator)
            /\ pc' = "aborted"
            /\ UNCHANGED << model, calls, metrics, eval_steps, step >>
  /\ UNCHANGED << env, fs, setup, optimizer, epoch, ds_index, train_iterator,
                  train_steps, pred, outs >>

\* End of a dataset's step loop in the training loop.
EvalDatasetDone ==
  /\ pc = "test_step"
  /\ step >= steps_per_eval[dataset_builders[ds_index]]
  /\ ds_index' = ds_index + 1
  /\ pc' = "eval_dataset"
  /\ UNCHANGED << env, fs, setup, model, optimizer, metrics, epoch, step,
                  train_iterator, test_iterator, calls, train_steps, eval_steps,
                  pred, outs >>

\* total_results = {name: metric.result()}; tf.summary.scalar(name, result,
\* step=epoch + 1) for each.
WriteSummary ==
  /\ pc = "summary"
  /\ summaries' = Append(summaries, [step |-> epoch + 1, total_results |-> metrics])
  /\ pc' = AfterSummary
  /\ UNCHANGED << env, fs, setup, model, optimizer, metrics, epoch, step,
                  ds_index, train_iterator, test_iterator, calls, train_steps,
                  eval_steps, pred, saved_checkpoints, saved_model >>

\* for metric in metrics.values(): metric.reset_states()
ResetMetrics ==
  /\ pc = "reset"
  /\ metrics' = ResetStates(metrics)
  /\ pc' = "checkpoint"
  /\ UNCHANGED << env, fs, setup, model, optimizer, epoch, step, ds_index,
                  train_iterator, test_iterator, calls, train_steps, eval_steps,
                  pred, outs >>

\* checkpoint.save when due; then the next epoch.
SaveCheckpoint ==
  /\ pc = "checkpoint"
  /\ IF CheckpointDue(epoch)
     THEN /\ fs' = [fs EXCEPT !.output_dir =
                      Append(@, [model |-> model, optimizer |-> optimizer])]
          /\ saved_checkpoints' = saved_checkpoints \cup {epoch}
     ELSE UNCHANGED << fs, saved_checkpoints >>
  /\ epoch' = epoch + 1
  /\ pc' = "epoch"
  /\ UNCHANGED << env, setup, model, optimizer, metrics, step, ds_index,
                  train_iterator, test_iterator, calls, train_steps, eval_steps,
                  pred, summaries, saved_model >>

\* model.save(final_save_name) on exit of the epoch loop.
SaveModel ==
  /\ pc = "save_model"
  /\ saved_model' = TRUE
  /\ pc' = "done"
  /\ UNCHANGED << env, fs, setup, model, optimizer, metrics, epoch, step,
                  ds_index, train_iterator, test_iterator, calls, train_steps,
                  eval_steps, pred, summaries, saved_checkpoints >>

\* The process ends (normally, by an exception or by being terminated) and
\* the program is launched again with the same flags: only the checkpoint
\* directories survive.
Relaunch ==
  /\ pc /= "validate"
  /\ runs < MaxRuns
  /\ runs' = runs + 1
  /\ pc' = "validate"
  /\ made_output_dir' = FALSE
  /\ steps_per_epoch' = 0
  /\ steps_per_eval' = ZeroCalls
  /\ model' = UnbuiltModel
  /\ optimizer' = [iterations |-> 0]
  /\ restored' = FALSE
  /\ loaded_bert' = FALSE
  /\ initial_epoch' = 0
  /\ metrics' = << >>
  /\ epoch' = 0
  /\ step' = 0
  /\ ds_index' = 1
  /\ train_iterator' = NoIterator
  /\ test_iterator' = NoIterator
  /\ calls' = NoCalls
  /\ train_steps' = 0
  /\ eval_steps' = ZeroCalls
  /\ final_eval_calls' = ZeroCalls
  /\ texts_all' = << >>
  /\ logits_all' = << >>
  /\ labels_all' = << >>
  /\ additional_labels_all_dict' = << >>
  /\ summaries' = << >>
  /\ saved_checkpoints' = {}
  /\ saved_predictions' = << >>
  /\ saved_model' = FALSE
  /\ UNCHANGED << FLAGS, ds_info, strategy, fs, step_in, step_out >>

Next ==
  \/ ValidateFlags
  \/ MainSetup
  \/ RestoreOrLoad
  \/ PredictNextDataset
  \/ FinalEvalStep
  \/ SavePredictions
  \/ TrainBegin
  \/ EpochHead
  \/ TrainStep
  \/ EvalCheck
  \/ EvalNextDataset
  \/ TestStep
  \/ EvalDatasetDone
  \/ WriteSummary
  \/ ResetMetrics
  \/ SaveCheckpoint
  \/ SaveModel
  \/ Relaunch

Spec == Init /\ [][Next]_vars

\* ------------------------------------ values computed by the step functions
\* StepSpec looks at what one call of a step function computes from the
\* batch it is given, for batches drawn from bounded sets, one call per
\* behaviour; Spec above keeps to the control flow and identifies a batch by
\* its position.

\* Every variable of main; a step_fn looked at on its own leaves them alone.
main_vars == << FLAGS, ds_info, strategy, fs, runs, pc, setup, model,
                optimizer, metrics, epoch, step, ds_index, train_iterator,
                test_iterator, calls, train_steps, eval_steps, pred, outs >>

\* Exact fractions [num, den] in lowest terms, den > 0.
RECURSIVE GCD(_, _)
GCD(a, b) == IF b = 0 THEN a ELSE GCD(b, a % b)
Abs(n) == IF n < 0 THEN -n ELSE n
Rat(n, d) ==
  LET g == GCD(Abs(n), Abs(d))
      sgn == IF d < 0 THEN -1 ELSE 1
  IN  [num |-> sgn * (n \div g), den |-> sgn * (d \div g)]
RatAdd(a, b) == Rat(a.num * b.den + b.num * a.den, a.den * b.den)
RatMul(a, b) == Rat(a.num * b.num, a.den * b.den)
RatDivInt(a, n) == Rat(a.num, a.den * n)
RatInv(a) == Rat(a.den, a.num)
RECURSIVE RatSum(_)
RatSum(xs) == IF Len(xs) = 0 THEN Rat(0, 1) ELSE RatAdd(Head(xs), RatSum(Tail(xs)))

\* The examples of a global batch of n that replica r of num_replicas gets.
ReplicaExamples(r, num_replicas, n) ==
  LET per_replica == n \div num_replicas
  IN  ((r - 1) * per_replica + 1) .. (r * per_replica)

\* The terms a loss is made of: the negative log-likelihood of each example
\* of the global batch, and the regularization losses of the model.
LossTerms(n) == { << "example", i >> : i \in 1..n } \cup { << "model.losses", 0 >> }

\* loss = tf.reduce_mean(negative_log_likelihood) + sum(model.losses) on
\* replica r, as the coefficient of each term.  The gradient is linear in
\* the loss, so these are the coefficients of the terms' gradients too.
ReplicaLoss(r, num_replicas, n) ==
  LET mine == ReplicaExamples(r, num_replicas, n)
  IN  [ t \in LossTerms(n) |->
          IF t[1] = "model.losses" THEN Rat(1, 1)
          ELSE IF t[2] \in mine THEN Rat(1, Cardinality(mine))
          ELSE Rat(0, 1) ]

\* Variant: the loss is not divided by the number of replicas.
ScaledLoss_Unscaled(loss, num_replicas) == loss

\* scaled_loss = loss / strategy.num_replicas_in_sync
ScaledLoss(loss, num_replicas) ==
  [ t \in DOMAIN loss |-> RatDivInt(loss[t], num_replicas) ]

\* The sum over the replicas that apply_gradients applies.
ReduceSum(per_replica) ==
  [ t \in DOMAIN per_replica[1] |->
      RatSum([ r \in DOMAIN per_replica |-> per_replica[r][t] ]) ]

\* grads = tape.gradient(scaled_loss, ...) on each replica, sum-reduced.
TrainStepFnGrads(n, num_replicas) ==
  ReduceSum([ r \in 1..num_replicas |->
                ScaledLoss(ReplicaLoss(r, num_replicas, n), num_replicas) ])

\* Sizes of the global batch a train_step is looked at with.
GlobalBatchSizes == {2, 4}

\* train_step's step_fn on the replicas of the strategy: the loss of each
\* replica and the gradients applied.
TrainStepFn ==
  /\ pc = "step_fn"
  /\ step_in.fn = None
  /\ \E n \in GlobalBatchSizes :
       LET num_replicas == strategy.num_replicas_in_sync
       IN  /\ n % num_replicas = 0
           /\ step_in' = [fn |-> "train_step", num_examples |-> n]
           /\ step_out' =
                [fn |-> "train_step",
                 loss |-> [ r \in 1..num_replicas |->
                              ReplicaLoss(r, num_replicas, n) ],
                 grads |-> TrainStepFnGrads(n, num_replicas)]
  /\ UNCHANGED main_vars

\* ---- the evaluation step functions
\* A label is in tenths (10 is the label 1.0).  A logit is in units of
\* ln 2, which makes the sigmoid of a whole logit a fraction.

\* FLAGS.fractions, in the order of the list.
fractions == << "0.0", "0.01" >>

\* The batches an evaluation step_fn is looked at with: per example the
\* label, the logit the model returns for it and the entry of the diagonal
\* of the covariance matrix the GP layer returns for it.
LabelValues == {0, 3, 10}
LogitValues == {-2, 0, 2}
CovmatDiagonals == { << 0, 0 >>, << 1, 3 >>, << 3, 3 >> }
StepBatches ==
  { [labels |-> l, logits |-> z, covmat |-> c] :
      l \in [1..2 -> LabelValues], z \in [1..2 -> LogitValues],
      c \in CovmatDiagonals }
  \cup
  { [labels |-> << 10, 0, 10, 0 >>, logits |-> << 2, -2, 2, -2 >>, covmat |-> c] :
      c \in { << 0, 0, 0, 0 >>, << 3, 3, 3, 3 >> } }

\* model(features, training=False): the GP layer returns the tuple
\* (logits, covmat), the baseline model bare logits.
ModelCall(batch) ==
  IF FLAGS.use_gp_layer
  THEN [tuple |-> TRUE, logits |-> batch.logits, covmat |-> batch.covmat]
  ELSE [tuple |-> FALSE, logits |-> batch.logits]

\* The diagonal of tf.eye(n).
Eye(n) == [ i \in 1..n |-> 1 ]

\* `if isinstance(logits, tuple): logits, covmat = logits` and
\* `else: covmat = tf.eye(test_batch_size)`, the batch being of that size.
CovmatOf(out) == IF out.tuple THEN out.covmat ELSE Eye(Len(out.logits))

\* ed.layers.utils.mean_field_logits: logits unchanged when
\* mean_field_factor < 0, else logits / sqrt(1 + variances * mean_field_factor)
\* with variances the diagonal of covmat.  The quotient is kept exact as the
\* pair of the logit and the square of the divisor, scale2, in units of 1e-4
\* like mean_field_factor.
mean_field_logits(logits, covmat, mean_field_factor) ==
  [ i \in DOMAIN logits |->
      [logit |-> logits[i],
       scale2 |-> IF mean_field_factor < 0 THEN 10000
                  ELSE 10000 + covmat[i] * mean_field_factor] ]

\* A calibrated logit is a whole number when its divisor is 1 or 2 and
\* divides the logit.
HasExactLogit(cal) ==
  \E k \in 1..2 : k * k * 10000 = cal.scale2 /\ cal.logit % k = 0
ExactLogit(cal) ==
  cal.logit \div (CHOOSE k \in 1..2 : k * k * 10000 = cal.scale2)

RECURSIVE Pow2(_)
Pow2(k) == IF k = 0 THEN 1 ELSE 2 * Pow2(k - 1)

\* tf.nn.sigmoid of a whole logit.
Sigmoid(z) ==
  IF z >= 0 THEN Rat(Pow2(z), 1 + Pow2(z)) ELSE Rat(1, 1 + Pow2(-z))

\* A real number x = ln(q) with q a positive fraction is kept as [exp |-> q].
LogNeg(x) == [exp |-> RatInv(x.exp)]
LogAdd(x, y) == [exp |-> RatMul(x.exp, y.exp)]

\* Variant: log(num_mc_samples) is not added.
tf_math_log_Dropped(n) == [exp |-> Rat(1, 1)]

\* tf.math.log(float(n))
tf_math_log(n) == [exp |-> Rat(n, 1)]

\* tf.reduce_logsumexp over the samples.
reduce_logsumexp(xs) == [exp |-> RatSum([ i \in DOMAIN xs |-> xs[i].exp ])]

\* tf.nn.sigmoid_cross_entropy_with_logits for a label of 0 or 1: minus the
\* log of the probability the logit gives the label.
sigmoid_cross_entropy_with_logits(label, z) ==
  LogNeg([exp |-> IF label = 10 THEN Sigmoid(z) ELSE Sigmoid(-z)])

RECURSIVE RatProduct(_)
RatProduct(xs) ==
  IF Len(xs) = 0 THEN Rat(1, 1) ELSE RatMul(Head(xs), RatProduct(Tail(xs)))

\* tf.reduce_mean of reals ln(q_i): ln of the product of the q_i, over their
\* number.
LogMean(xs) ==
  [exp |-> RatProduct([ i \in DOMAIN xs |-> xs[i].exp ]), over |-> Len(xs)]

\* The cross-entropy is computed here when every label is 0 or 1 and every
\* calibrated logit a whole number.
Representable(labels, logits_list) ==
  /\ \A i \in DOMAIN labels : labels[i] \in {0, 10}
  /\ \A s \in DOMAIN logits_list : \A i \in DOMAIN labels :
       HasExactLogit(logits_list[s][i])

\* ce over [num_mc_samples, batch]; negative_log_likelihood =
\* -reduce_logsumexp(-ce, axis=0) + log(num_mc_samples), then reduce_mean.
NegativeLogLikelihood(labels, logits_list) ==
  LET num_mc_samples == Len(logits_list)
      ce == [ s \in 1..num_mc_samples |->
                [ i \in DOMAIN labels |->
                    sigmoid_cross_entropy_with_logits(
                      labels[i], ExactLogit(logits_list[s][i])) ] ]
      negative_log_likelihood ==
        [ i \in DOMAIN labels |->
            LogAdd(LogNeg(reduce_logsumexp(
                            [ s \in 1..num_mc_samples |-> LogNeg(ce[s][i]) ])),
                   tf_math_log(num_mc_samples)) ]
  IN  LogMean(negative_log_likelihood)

\* ece_labels = tf.cast(labels > FLAGS.ece_label_threshold, tf.float32)
EceLabels(labels) ==
  [ i \in DOMAIN labels |-> IF labels[i] > FLAGS.ece_label_threshold THEN 10 ELSE 0 ]

\* probs = tf.reduce_mean(tf.nn.sigmoid(logits_list), axis=0): per example,
\* the mean of the sigmoids of its calibrated logits, kept as their list.
Probs(logits_list) ==
  [ i \in DOMAIN logits_list[1] |->
      [mean_sigmoid_of |-> [ s \in DOMAIN logits_list |-> logits_list[s][i] ]] ]

\* ece_probs = tf.concat([1. - probs, probs], axis=1)
EceProbs(probs) ==
  [ i \in DOMAIN probs |-> << [one_minus |-> probs[i]], probs[i] >> ]

\* pred_labels = tf.math.argmax(ece_probs, axis=-1): class 1 when probs
\* exceeds 1 - probs, that is when the logit is positive (the samples are
\* forward passes of the same deterministic model); class 0 on a tie.
PredLabels(probs) ==
  [ i \in DOMAIN probs |->
      IF probs[i].mean_sigmoid_of[1].logit > 0 THEN 1 ELSE 0 ]

\* The update_state calls of test_step's step_fn, in order.
TestStepFnCalls(dataset_name, v) ==
  << [name |-> TestMetricName("test/nll", dataset_name),
      args |-> << v.negative_log_likelihood >>],
     [name |-> TestMetricName("test/auroc", dataset_name),
      args |-> << v.labels, v.auc_probs >>],
     [name |-> TestMetricName("test/aupr", dataset_name),
      args |-> << v.labels, v.auc_probs >>],
     [name |-> TestMetricName("test/brier", dataset_name),
      args |-> << v.labels, v.auc_probs >>],
     [name |-> TestMetricName("test/ece", dataset_name),
      args |-> << v.ece_labels, v.ece_probs >>],
     [name |-> TestMetricName("test/stddev", dataset_name),
      args |-> << v.stddev >>],
     [name |-> TestMetricName("test/acc", dataset_name),
      args |-> << v.ece_labels, v.pred_labels >>] >>
  \o [ k \in DOMAIN fractions |->
         [name |-> CollabMetricName(fractions[k], dataset_name),
          args |-> << v.ece_labels, v.ece_probs >>] ]

\* What test_step's step_fn computes from a batch of dataset_name.
TestStepFnResult(batch, dataset_name) ==
  LET labels == batch.labels
      out == ModelCall(batch)
      covmat == CovmatOf(out)
      logits_list ==
        [ s \in 1..FLAGS.num_mc_samples |->
            mean_field_logits(out.logits, covmat, FLAGS.gp_mean_field_factor) ]
      stddev_list ==
        [ s \in 1..FLAGS.num_mc_samples |->
            [ i \in DOMAIN covmat |-> [sqrt_of |-> covmat[i]] ] ]
      probs == Probs(logits_list)
      v == [labels |-> labels,
            ece_labels |-> EceLabels(labels),
            ece_probs |-> EceProbs(probs),
            pred_labels |-> PredLabels(probs),
            auc_probs |-> probs,
            stddev |-> [ i \in DOMAIN covmat |->
                           [mean_of |-> [ s \in DOMAIN stddev_list |->
                                            stddev_list[s][i] ]] ],
            negative_log_likelihood |->
              IF Representable(labels, logits_list)
              THEN [exact |-> TRUE,
                    value |-> NegativeLogLikelihood(labels, logits_list)]
              ELSE [exact |-> FALSE]]
  IN  [fn |-> "test_step", logits_list |-> logits_list, values |-> v,
       calls |-> TestStepFnCalls(dataset_name, v)]

\* test_step's step_fn on a batch of one of the datasets.
TestStepFn ==
  /\ pc = "step_fn"
  /\ step_in.fn = None
  /\ \E batch \in StepBatches, dataset_name \in DatasetNames :
       /\ step_in' = [fn |-> "test_step", batch |-> batch,
                      dataset_name |-> dataset_name]
       /\ step_out' = TestStepFnResult(batch, dataset_name)
  /\ UNCHANGED main_vars

\* final_eval_step's step_fn: the logits it returns for export.
FinalEvalStepFn ==
  /\ pc = "step_fn"
  /\ step_in.fn = None
  /\ \E batch \in StepBatches :
       LET out == ModelCall(batch)
       IN  /\ step_in' = [fn |-> "final_eval_step", batch |-> batch]
           /\ step_out' =
                [fn |-> "final_eval_step",
                 logits |-> mean_field_logits(out.logits, CovmatOf(out),
                                              FLAGS.gp_mean_field_factor),
                 labels |-> batch.labels]
  /\ UNCHANGED main_vars

\* The flags a step_fn is looked at under.
StepFlags ==
  { [TrainingFlags(1, 1, 1, None, DefaultBert) EXCEPT
       !.use_gp_layer = gp, !.gp_mean_field_factor = mff,
       !.num_mc_samples = mc] :
      gp \in BOOLEAN, mff \in {-10000, 0, 1, 10000}, mc \in {1, 2} }

StepInit ==
  /\ FLAGS \in StepFlags
  /\ ds_info = [num_train_examples |-> 2,
                num_test_examples |-> [ind |-> 2, ood |-> 4, ood_identity |-> 1]]
  /\ fs = [output_dir |-> << >>, eval_dir |-> << >>]
  /\ \E r \in ReplicaCounts : strategy = [num_replicas_in_sync |-> r]
  /\ runs = 1
  /\ pc = "step_fn"
  /\ Fresh
  /\ step_in = NoStep
  /\ step_out = NoStep

StepNext ==
  \/ TrainStepFn
  \/ TestStepFn
  \/ FinalEvalStepFn

StepSpec == StepInit /\ [][StepNext]_vars

\* ================================================================ claims

TrainingMode == ~ FLAGS.prediction_mode

\* The launch has gone through the checkpoint lookup of main.
PastLookup ==
  /\ pc \notin {"validate", "rejected", "main", "checkpoint_lookup"}
  /\ model.built

\* Positions of main inside the epoch loop, after the train steps of the epoch.
AfterTrainSteps == {"eval_dataset", "test_step", "summary", "reset", "checkpoint"}

\* C1: in a training-mode launch that finds a checkpoint in output_dir, model
\* and optimizer are those of the latest checkpoint, the pretrained encoder
\* is not loaded, initial_epoch is the restored step counter div
\* steps_per_epoch and the epoch loop starts there (the train steps made when
\* the loop is at epoch e number (e - initial_epoch) * steps_per_epoch); and
\* every launch that gets through the lookup does exactly one of restore and
\* pretrained load.
C1_RestoreOrPretrained ==
  /\ PastLookup => (restored /= loaded_bert)
  /\ (TrainingMode /\ pc = "train" /\ Len(fs.output_dir) > 0) =>
       /\ restored /\ ~ loaded_bert
       /\ model = fs.output_dir[Len(fs.output_dir)].model
       /\ optimizer = fs.output_dir[Len(fs.output_dir)].optimizer
       /\ initial_epoch = optimizer.iterations \div steps_per_epoch
  /\ (TrainingMode /\ pc = "epoch") =>
       train_steps = (epoch - initial_epoch) * steps_per_epoch

\* C1 witness: a training launch has restored a checkpoint taken after two
\* steps of a one-step epoch and stands at the head of its epoch loop.
C1_Witness ==
  /\ TrainingMode /\ pc = "epoch" /\ restored /\ train_steps = 0
  /\ steps_per_epoch = 1 /\ initial_epoch = 2 /\ epoch = 2

\* The first n batches of the training stream, in order: what an
\* uninterrupted run has folded into the model after n train steps.
Uninterrupted(n) == [ i \in 1..n |-> << "train", i - 1 >> ]

\* C2: whatever checkpoints and restores lie behind it, the state of a built
\* model is the state of an uninterrupted run of as many steps as the
\* optimizer has counted: weights and precision matrix hold the first
\* optimizer.iterations batches of the training stream, in order, so a
\* resumed launch continues with the batches that follow those of the
\* checkpoint.
C2_ResumeEqualsUninterrupted ==
  PastLookup =>
    /\ model.weights = Uninterrupted(optimizer.iterations)
    /\ model.precision = Uninterrupted(optimizer.iterations)

AllEmpty(ms) == \A n \in DOMAIN ms : ms[n] = << >>

PredictionFiles(d) ==
  { << "texts", d >>, << "labels", d >>, << "logits", d >> }
    \cup (IF HasIdentity(d) THEN { << "additional_labels", d >> } ELSE {})

\* C3: a prediction-mode launch makes no train_step and no test_step, leaves
\* every metric accumulator empty, writes no summary, saves no checkpoint
\* and no final model; it never makes more than steps_per_eval[d] calls of
\* final_eval_step on dataset d, the predictions of d are saved only after
\* exactly steps_per_eval[d] calls, and when main returns every dataset has
\* had exactly steps_per_eval[d] calls and has its predictions saved.
C3_PredictionModeSkipsTraining ==
  FLAGS.prediction_mode =>
    /\ train_steps = 0
    /\ calls["train_step"] = {} /\ calls["test_step"] = {}
    /\ pc \notin {"train", "epoch", "train_step", "save_model"} \cup AfterTrainSteps
    /\ AllEmpty(metrics)
    /\ summaries = << >>
    /\ saved_checkpoints = {} /\ Len(fs.output_dir) = 0
    /\ ~ saved_model
    /\ \A d \in DatasetNames :
         /\ final_eval_calls[d] <= steps_per_eval[d]
         /\ (PredictionFiles(d) \cap DOMAIN saved_predictions /= {}) =>
              /\ final_eval_calls[d] = steps_per_eval[d]
              /\ PredictionFiles(d) \subseteq DOMAIN saved_predictions
         /\ pc = "done" =>
              /\ final_eval_calls[d] = steps_per_eval[d]
              /\ PredictionFiles(d) \subseteq DOMAIN saved_predictions

\* C3 witness: a prediction-mode launch has returned from main after two
\* final_eval_step calls on 'ind' and one on each other dataset.
C3_Witness ==
  /\ FLAGS.prediction_mode /\ pc = "done"
  /\ final_eval_calls = [ind |-> 2, ood |-> 1, ood_identity |-> 1]
  /\ DOMAIN saved_predictions = UNION { PredictionFiles(d) : d \in DatasetNames }

\* C4: an end-of-data raised by a test iterator is not an error, in the
\* evaluation of the training loop as in prediction mode: the step in which
\* the iterator raises it does not end the process, which goes on with what
\* it has processed so far.
C4_EvalEndOfDataIsNotAnError ==
  [][ (test_iterator'.exhausted /\ ~ test_iterator.exhausted)
      => pc' /= "aborted" ]_vars

\* C5: an end-of-data raised by the training iterator never ends the process
\* with an error; the launch goes on to the evaluation, reset and checkpoint
\* step of the epoch.
C5_TrainEndOfDataEndsEpoch ==
  ~ (pc = "aborted" /\ train_iterator.exhausted)

\* C6: a launch whose checkpoint lookup finds nothing (in output_dir in
\* training mode, in eval_checkpoint_dir in prediction mode) does not fail
\* there: the step loads the pretrained encoder weights, restores nothing,
\* leaves initial_epoch at 0 and goes on to training, or to the prediction
\* loop in prediction mode.
C6_NoCheckpointFallsBack ==
  [][ ( /\ pc = "checkpoint_lookup"
        /\ runs' = runs
        /\ ~ latest_checkpoint(CheckpointDir).found )
      => ( /\ loaded_bert' /\ ~ restored'
           /\ model'.encoder = ResolvedBert.ckpt
           /\ model'.weights = << >> /\ optimizer'.iterations = 0
           /\ initial_epoch' = 0
           /\ pc' = IF FLAGS.prediction_mode THEN "predict" ELSE "train" ) ]_vars

\* C6 witness: a prediction-mode launch found no checkpoint in
\* eval_checkpoint_dir, loaded the pretrained encoder and saved predictions.
C6_Witness ==
  /\ FLAGS.prediction_mode /\ Len(fs.eval_dir) = 0
  /\ loaded_bert /\ ~ restored /\ initial_epoch = 0
  /\ pc = "done"

\* The accumulators of the datasets from position i of dataset_builders on.
TestMetricsFrom(i) ==
  UNION { TestMetricsOf(dataset_builders[j]) : j \in i..Len(dataset_builders) }

\* C7: train_step alone runs the model with training=True, test_step and
\* final_eval_step run it with training=False, so the precision matrix holds
\* training batches only, one per optimizer update; an evaluation step of
\* epoch e finds all steps_per_epoch train steps of epoch e done, and a train
\* step of epoch e+1 finds the evaluation of epoch e complete (every dataset
\* has had its steps_per_eval test steps if the evaluation was due, none
\* otherwise).
C7_TrainAndEvalPhasesDisjoint ==
  /\ calls["train_step"] \subseteq {TRUE}
  /\ calls["test_step"] \subseteq {FALSE}
  /\ calls["final_eval_step"] \subseteq {FALSE}
  /\ model.precision = model.weights
  /\ \A i \in DOMAIN model.precision : model.precision[i][1] = "train"
  /\ pc \in {"eval_dataset", "test_step", "summary"} =>
       /\ TrainingMode
       /\ train_steps = (epoch - initial_epoch + 1) * steps_per_epoch
  /\ pc = "train_step" =>
       /\ train_steps = (epoch - initial_epoch) * steps_per_epoch + step
       /\ epoch > initial_epoch =>
            \A d \in DatasetNames :
              eval_steps[d] =
                IF (epoch - 1) % FLAGS.evaluation_interval = 0
                THEN steps_per_eval[d] ELSE 0

\* C7 witness: the second epoch of a launch is in its train steps after an
\* evaluation of the first epoch that ran test steps on every dataset.
C7_Witness ==
  /\ pc = "train_step" /\ epoch = initial_epoch + 1 /\ step = 1
  /\ eval_steps = [ind |-> 2, ood |-> 1, ood_identity |-> 1]
  /\ calls["test_step"] = {FALSE} /\ calls["train_step"] = {TRUE}

\* What an accumulator holds after the k steps 0..k-1 of source src in epoch e.
Contributions(src, e, k) == [ i \in 1..k |-> << src, e, i - 1 >> ]

\* Each summary record holds, for the epoch e = step - 1 it was written for,
\* the steps_per_epoch train steps of e in every train/* accumulator and the
\* steps_per_eval[d] test steps of e on d in every accumulator test_step
\* updates for d.
SummariesPerEpoch ==
  \A i \in DOMAIN summaries :
    LET r == summaries[i].total_results
        e == summaries[i].step - 1
    IN  /\ \A n \in TrainMetrics : r[n] = Contributions("train", e, steps_per_epoch)
        /\ \A d \in DatasetNames : \A n \in TestStepUpdates(d) :
             r[n] = Contributions(d, e, steps_per_eval[d])

\* C8 as stated: every accumulator is empty when the train steps of an epoch
\* begin and when the evaluation pass over a dataset begins; each summary
\* value aggregates its own epoch and dataset only; after the summary write
\* all accumulators are reset.
C8_AllAccumulatorsEmptyAtPassStart ==
  /\ (pc = "train_step" /\ step = 0) => AllEmpty(metrics)
  /\ (pc = "test_step" /\ step = 0) => AllEmpty(metrics)
  /\ SummariesPerEpoch
  /\ pc \in {"checkpoint", "epoch"} => AllEmpty(metrics)

\* C8 amended: every accumulator is empty when the train steps of an epoch
\* begin; when the evaluation pass over a dataset begins, the accumulators
\* of that dataset and of the datasets still to come are empty and the
\* train/* accumulators hold the train steps of this epoch; each summary
\* value aggregates its own epoch and dataset only; after the summary write
\* all accumulators are reset.
C8_OwnAccumulatorsEmptyAtPassStart ==
  /\ (pc = "train_step" /\ step = 0) => AllEmpty(metrics)
  /\ (pc = "test_step" /\ step = 0) =>
       /\ \A n \in TestMetricsFrom(ds_index) : metrics[n] = << >>
       /\ \A n \in TrainMetrics :
            metrics[n] = Contributions("train", epoch, steps_per_epoch)
  /\ SummariesPerEpoch
  /\ pc \in {"checkpoint", "epoch"} => AllEmpty(metrics)

\* C8 witness: the launch has written the summaries of two epochs and the
\* evaluation pass over the second dataset of a third is about to begin.
C8_Witness ==
  /\ Len(summaries) = 2
  /\ pc = "test_step" /\ step = 0 /\ ds_index = 2
  /\ metrics[<< "test/nll", "", "" >>] /= << >>

\* C9: among the epochs a training launch has completed, a checkpoint was
\* saved after exactly those epochs e with checkpoint_interval > 0 and
\* (e + 1) mod checkpoint_interval = 0; with checkpoint_interval = -1 no
\* checkpoint is saved by this or any earlier launch.
C9_CheckpointInterval ==
  /\ ( /\ TrainingMode
       /\ train_iterator.name = "train"
       /\ pc \in {"epoch", "train_step", "save_model", "done", "aborted"}
                   \cup AfterTrainSteps ) =>
       \A e \in 0..MaxEpochs + 1 :
         e \in saved_checkpoints <=>
           /\ initial_epoch <= e /\ e < epoch
           /\ FLAGS.checkpoint_interval > 0
           /\ (e + 1) % FLAGS.checkpoint_interval = 0
  /\ Len(fs.output_dir) >= Cardinality(saved_checkpoints)
  /\ FLAGS.checkpoint_interval = -1 =>
       saved_checkpoints = {} /\ Len(fs.output_dir) = 0

\* C9 witness: with checkpoint_interval = 2 a launch has completed three
\* epochs and saved a checkpoint after the second one alone.
C9_Witness ==
  /\ FLAGS.checkpoint_interval = 2 /\ pc = "epoch" /\ epoch = 3
  /\ initial_epoch = 0 /\ saved_checkpoints = {1}

\* C10: once the flag validators have run, the launch is rejected exactly
\* when prediction_mode is set and eval_checkpoint_dir is missing, and a
\* rejected launch has done nothing: no output directory, no step counts,
\* no model, no accumulators, no iterator, no step, nothing written.
C10_PredictionModeNeedsCheckpointDir ==
  /\ pc /= "validate" =>
       (pc = "rejected" <=>
          (FLAGS.prediction_mode /\ FLAGS.eval_checkpoint_dir = None))
  /\ pc = "rejected" =>
       /\ ~ made_output_dir
       /\ steps_per_epoch = 0 /\ steps_per_eval = ZeroCalls
       /\ model = UnbuiltModel /\ optimizer.iterations = 0
       /\ ~ restored /\ ~ loaded_bert
       /\ DOMAIN metrics = {}
       /\ train_iterator = NoIterator /\ test_iterator = NoIterator
       /\ calls = NoCalls /\ train_steps = 0
       /\ eval_steps = ZeroCalls /\ final_eval_calls = ZeroCalls
       /\ summaries = << >> /\ saved_checkpoints = {}
       /\ DOMAIN saved_predictions = {} /\ ~ saved_model

\* C10 witness: a launch was rejected by the validator, and the flags were
\* prediction_mode without eval_checkpoint_dir.
C10_Witness ==
  /\ pc = "rejected"
  /\ FLAGS.prediction_mode /\ FLAGS.eval_checkpoint_dir = None

\* C11: a train_step is one update of the optimizer whatever the number of
\* replicas: the step that completes a train_step raises optimizer.iterations
\* by exactly 1, and nothing else in a launch past its checkpoint lookup
\* changes the counter; so in a launch that restored nothing the counter
\* equals the train steps made, and is (e + 1) * steps_per_epoch once the
\* train steps of epoch e are done.
C11_OneUpdatePerTrainStep ==
  /\ [] ( (TrainingMode /\ ~ restored) =>
           /\ optimizer.iterations = train_steps
           /\ pc \in AfterTrainSteps =>
                optimizer.iterations = (epoch + 1) * steps_per_epoch )
  /\ [][ /\ train_steps' = train_steps + 1 =>
             optimizer'.iterations = optimizer.iterations + 1
         /\ (runs' = runs /\ pc /= "checkpoint_lookup"
               /\ optimizer'.iterations /= optimizer.iterations) =>
             train_steps' = train_steps + 1 ]_vars

\* C11 witness: on two replicas, a launch from a fresh start has done the
\* train steps of its third epoch of two steps: six updates.
C11_Witness ==
  /\ TrainingMode /\ ~ restored /\ strategy.num_replicas_in_sync = 2
  /\ pc = "checkpoint" /\ epoch = 2 /\ steps_per_epoch = 2
  /\ train_steps = 6 /\ optimizer.iterations = 6

\* The mean of the losses of the replicas.
MeanLoss(losses) ==
  [ t \in DOMAIN losses[1] |->
      RatDivInt(RatSum([ r \in DOMAIN losses |-> losses[r][t] ]), Len(losses)) ]

\* C12: the gradients a train step applies, each replica having divided its
\* loss (data loss plus regularization losses) by the number of replicas
\* before the sum over the replicas, are those of the mean of the replicas'
\* losses: every example of the global batch weighs 1/n and the
\* regularization losses weigh 1; and they are the same on any number of
\* replicas the same n examples divide over.
C12_LossScaledByReplicas ==
  step_out.fn = "train_step" =>
    LET n == step_in.num_examples
    IN  /\ Len(step_out.loss) = strategy.num_replicas_in_sync
        /\ step_out.grads = MeanLoss(step_out.loss)
        /\ \A t \in LossTerms(n) :
             step_out.grads[t] =
               IF t[1] = "model.losses" THEN Rat(1, 1) ELSE Rat(1, n)
        /\ \A r \in 1..n :
             n % r = 0 => TrainStepFnGrads(n, r) = step_out.grads

\* C12 witness: a train step on two replicas with a global batch of four.
C12_Witness ==
  /\ step_out.fn = "train_step" /\ strategy.num_replicas_in_sync = 2
  /\ step_in.num_examples = 4
  /\ step_out.loss[1][<< "example", 1 >>] = Rat(1, 2)
  /\ step_out.loss[1][<< "example", 3 >>] = Rat(0, 1)
  /\ step_out.grads[<< "example", 3 >>] = Rat(1, 4)

\* The calls of a step that name accumulator n.
CallsOn(step_calls, n) == { k \in DOMAIN step_calls : step_calls[k].name = n }

\* C13: the oracle-collaborative-accuracy accumulators of the datasets and
\* fractions are pairwise different registered accumulators; a test step on
\* dataset d calls update_state exactly once on the accumulator of each
\* fraction for d, every time with the labels thresholded at
\* ece_label_threshold and with the same (1 - probs, probs) of the step, and
\* on no collab_acc accumulator of another dataset.
C13_CollabAccumulatorPerFraction ==
  /\ \A d1 \in DatasetNames, d2 \in DatasetNames :
       \A f1 \in Fractions, f2 \in Fractions :
         /\ CollabMetricName(f1, d1) \in DOMAIN EmptyMetrics
         /\ (CollabMetricName(f1, d1) = CollabMetricName(f2, d2)) =>
              (f1 = f2 /\ d1 = d2)
  /\ Range(fractions) = Fractions
  /\ step_out.fn = "test_step" =>
       LET d == step_in.dataset_name
           labels == step_in.batch.labels
       IN  /\ \A f \in Fractions :
                /\ Cardinality(CallsOn(step_out.calls, CollabMetricName(f, d))) = 1
                /\ \A k \in CallsOn(step_out.calls, CollabMetricName(f, d)) :
                     LET args == step_out.calls[k].args
                     IN  /\ Len(args) = 2
                         /\ DOMAIN args[1] = DOMAIN labels
                         /\ \A i \in DOMAIN labels :
                              args[1][i] =
                                IF labels[i] > FLAGS.ece_label_threshold
                                THEN 10 ELSE 0
                         /\ args[2] = step_out.values.ece_probs
           /\ \A k \in DOMAIN step_out.calls :
                step_out.calls[k].name[1] = "test_collab_acc/collab_acc" =>
                  \E f \in Fractions :
                    step_out.calls[k].name = CollabMetricName(f, d)

\* C13 witness: a test step on 'ood' has updated the accumulators of both
\* fractions for 'ood' with the labels (0.3, 1.0) thresholded to (0, 1).
C13_Witness ==
  /\ step_out.fn = "test_step" /\ step_in.dataset_name = "ood"
  /\ step_in.batch.labels = << 3, 10 >>
  /\ step_out.calls[8].name = << "test_collab_acc/collab_acc", "0.0", "ood" >>
  /\ step_out.calls[9].name = << "test_collab_acc/collab_acc", "0.01", "ood" >>
  /\ step_out.calls[8].args[1] = << 0, 10 >>
  /\ step_out.calls[9].args = step_out.calls[8].args

\* Column f of the first n batches of dataset d, one row per batch.
Column(f, d, n) == [ i \in 1..n |-> << f, d, i - 1 >> ]

SameReal(cal, z) ==
  /\ (cal.logit > 0) = (z > 0) /\ (cal.logit < 0) = (z < 0)
  /\ cal.logit * cal.logit * 10000 = z * z * cal.scale2

\* C15: in baseline mode, where the model returns bare logits and the step
\* takes the identity for covmat, mean-field calibration changes nothing:
\* the logits test_step computes its metrics from and the logits
\* final_eval_step returns for export are the logits the model returned.
C15_BaselineCalibrationIsNoOp ==
  ~ FLAGS.use_gp_layer =>
    /\ step_out.fn = "test_step" =>
         \A s \in DOMAIN step_out.logits_list :
           \A i \in DOMAIN step_in.batch.logits :
             SameReal(step_out.logits_list[s][i], step_in.batch.logits[i])
    /\ step_out.fn = "final_eval_step" =>
         \A i \in DOMAIN step_in.batch.logits :
           SameReal(step_out.logits[i], step_in.batch.logits[i])

\* The metrics C16 names, and the calibrated probabilities they are fed.
ThresholdedMetrics == {"test/auroc", "test/aupr", "test/brier", "test/acc"}

CalibratedPrediction(name, v) ==
  IF name = "test/acc" THEN v.pred_labels ELSE v.auc_probs

\* C16: in every evaluation step AUROC, AUPR, Brier score and accuracy are
\* each updated from the calibrated probabilities against the labels
\* binarized at the threshold (label > ece_label_threshold).
C16_MetricsAgainstThresholdedLabels ==
  step_out.fn = "test_step" =>
    \A base \in ThresholdedMetrics :
      \E k \in DOMAIN step_out.calls :
        /\ step_out.calls[k].name = TestMetricName(base, step_in.dataset_name)
        /\ step_out.calls[k].args =
             << EceLabels(step_in.batch.labels),
                CalibratedPrediction(base, step_out.values) >>

\* The probability a whole logit z gives the label y, from the sigmoid of z
\* alone: p for the label 1 and 1 - p for the label 0.
Likelihood(y, z) ==
  LET p == Sigmoid(z)
  IN  IF y = 10 THEN p ELSE Rat(p.den - p.num, p.den)

\* The plain binary cross-entropy -(y ln p + (1 - y) ln(1 - p)).
BinaryCrossEntropy(y, z) == [exp |-> RatInv(Likelihood(y, z))]

\* The 4-example batch of the claim.
C17_Example(batch) ==
  batch.labels = << 10, 0, 10, 0 >> /\ batch.logits = << 2, -2, 2, -2 >>

\* C17: the evaluation NLL is, per example, minus the log of the mean over
\* the Monte-Carlo samples of the likelihood (-logsumexp(-ce) + log S),
\* averaged over the batch; with num_mc_samples = 1 it is the mean binary
\* cross-entropy of the calibrated logits, which for labels [1,0,1,0] and
\* uncalibrated logits [2,-2,2,-2] is the log of 5/4 (logits in units of
\* ln 2).
C17_NllReducesToCrossEntropy ==
  (step_out.fn = "test_step" /\ step_out.values.negative_log_likelihood.exact) =>
    LET labels == step_in.batch.labels
        logits_list == step_out.logits_list
        S == Len(logits_list)
        nll == step_out.values.negative_log_likelihood.value
        z(s, i) == ExactLogit(logits_list[s][i])
    IN  /\ nll.over = Len(labels)
        /\ nll.exp =
             RatProduct([ i \in DOMAIN labels |->
               RatInv(RatDivInt(
                 RatSum([ s \in 1..S |-> Likelihood(labels[i], z(s, i)) ]), S)) ])
        /\ S = 1 =>
             nll = LogMean([ i \in DOMAIN labels |->
                               BinaryCrossEntropy(labels[i], z(1, i)) ])
        /\ (S = 1 /\ C17_Example(step_in.batch)
              /\ \A i \in DOMAIN labels : z(1, i) = step_in.batch.logits[i]) =>
             nll = [exp |-> [num |-> 625, den |-> 256], over |-> 4]

C17_Witness ==
  /\ step_out.fn = "test_step"
  /\ step_out.values.negative_log_likelihood.exact
  /\ FLAGS.num_mc_samples = 1
  /\ C17_Example(step_in.batch)
  /\ step_out.values.negative_log_likelihood.value =
       [exp |-> [num |-> 625, den |-> 256], over |-> 4]

\* The contributions of the first k train steps of epoch e, and of the first
\* k test steps of epoch e on dataset d.
TrainContributions(e, k) == [ j \in 1..k |-> << "train", e, j - 1 >> ]
TestContributions(d, e, k) == [ j \in 1..k |-> << d, e, j - 1 >> ]

\* The accumulators hold all train steps of epoch e / the whole evaluation
\* pass of epoch e / nothing of any evaluation.
TrainStepsDone(e) ==
  \A n \in TrainMetrics : metrics[n] = TrainContributions(e, steps_per_epoch)
EvalPassDone(e) ==
  \A d \in DatasetNames : \A n \in TestStepUpdates(d) :
    metrics[n] = TestContributions(d, e, steps_per_eval[d])
NoEvalHeld ==
  \A d \in DatasetNames : \A n \in TestMetricsOf(d) : metrics[n] = << >>

\* Evaluation is due after epoch e.
Due(e) == FLAGS.evaluation_interval /= 0 /\ EvaluationDue(e)

\* C18: in a training-mode launch the events of an epoch come in this order:
\* all steps_per_epoch train steps; if evaluation is due, the test steps over
\* every dataset and then the summary write; the reset of all accumulators;
\* the checkpoint save if due, which ends the epoch.  The final model is
\* exported once, after the checkpoint step of the last epoch, and nothing
\* follows it.
C18_EpochOrder ==
  [][ (TrainingMode /\ runs' = runs) =>
        /\ train_steps' /= train_steps =>
             /\ \A n \in TrainMetrics :
                  /\ metrics[n] = TrainContributions(epoch, Len(metrics[n]))
                  /\ Len(metrics[n]) < steps_per_epoch
             /\ NoEvalHeld
        /\ (\E d \in DatasetNames : eval_steps'[d] > eval_steps[d]) =>
             /\ Due(epoch) /\ TrainStepsDone(epoch)
             /\ \A i \in DOMAIN summaries : summaries[i].step /= epoch + 1
        /\ summaries' /= summaries =>
             /\ Due(epoch) /\ TrainStepsDone(epoch) /\ EvalPassDone(epoch)
             /\ summaries' = Append(summaries, [step |-> epoch + 1,
                                                 total_results |-> metrics])
             /\ metrics' = metrics
        /\ (~ AllEmpty(metrics) /\ AllEmpty(metrics')) =>
             /\ TrainStepsDone(epoch)
             /\ IF Due(epoch)
                THEN /\ EvalPassDone(epoch)
                     /\ summaries /= << >>
                     /\ summaries[Len(summaries)].step = epoch + 1
                ELSE NoEvalHeld
             /\ epoch \notin saved_checkpoints
        /\ (train_iterator /= NoIterator /\ epoch' /= epoch) =>
             /\ epoch' = epoch + 1
             /\ AllEmpty(metrics)
             /\ train_steps = (epoch + 1 - initial_epoch) * steps_per_epoch
             /\ (epoch \in saved_checkpoints') = CheckpointDue(epoch)
        /\ saved_checkpoints' /= saved_checkpoints => epoch' = epoch + 1
        /\ saved_model' => 
             /\ ~ saved_model
             /\ epoch >= FLAGS.train_epochs
             /\ train_steps > 0 =>
                  /\ AllEmpty(metrics)
                  /\ ((epoch - 1) \in saved_checkpoints) = CheckpointDue(epoch - 1)
             /\ UNCHANGED << train_steps, eval_steps, summaries, metrics,
                             saved_checkpoints, epoch >>
    ]_vars

\* C18 witness: a launch has exported the model after two epochs, with an
\* evaluation after the first only and a checkpoint after the second only.
C18_Witness ==
  /\ TrainingMode /\ saved_model /\ pc = "done"
  /\ epoch = initial_epoch + 2
  /\ Len(summaries) = 1 /\ summaries[1].step = initial_epoch + 1
  /\ saved_checkpoints = {initial_epoch + 1}

\* e mod evaluation_interval = 0.
C19_Divides(e) ==
  FLAGS.evaluation_interval /= 0 /\ e % FLAGS.evaluation_interval = 0

\* The epochs of this launch whose train steps, evaluation (if any) and
\* summary (if any) are over.
C19_PastEvaluation ==
  { e \in initial_epoch .. epoch :
      e < epoch \/ pc \in {"reset", "checkpoint"} }

\* A summary record holds a whole evaluation pass of epoch e over the three
\* datasets.
C19_HoldsEvalPass(total_results, e) ==
  \A d \in {"ind", "ood", "ood_identity"} : \A n \in TestStepUpdates(d) :
    total_results[n] = TestContributions(d, e, steps_per_eval[d])

\* C19: in training mode the evaluation pass over ind, ood and ood_identity
\* and the summary write with step e+1 happen after the train steps of epoch
\* e if and only if e mod evaluation_interval = 0; after any other epoch no
\* test step runs and no summary is written.
C19_EvaluationInterval ==
  /\ []( (TrainingMode /\ pc \in {"epoch", "train_step", "save_model", "done",
                                    "aborted"} \cup AfterTrainSteps) =>
          /\ \A e \in C19_PastEvaluation :
               C19_Divides(e) <=>
                 \E i \in DOMAIN summaries :
                   /\ summaries[i].step = e + 1
                   /\ C19_HoldsEvalPass(summaries[i].total_results, e)
          /\ \A i, j \in DOMAIN summaries :
               /\ (summaries[i].step - 1) \in initial_epoch .. epoch
               /\ C19_Divides(summaries[i].step - 1)
               /\ i < j => summaries[i].step < summaries[j].step
          /\ pc \in {"reset", "checkpoint"} =>
               \A d \in DatasetNames :
                 eval_steps[d] =
                   IF C19_Divides(epoch) THEN steps_per_eval[d] ELSE 0 )
  /\ [][ (TrainingMode /\ runs' = runs) =>
          /\ (\E d \in DatasetNames : eval_steps'[d] > eval_steps[d]) =>
               C19_Divides(epoch)
          /\ summaries' /= summaries => C19_Divides(epoch) ]_vars

\* C19 witness: with evaluation_interval = 2 a launch has finished epochs 0
\* and 1 and written the one summary of epoch 0, with step 1, after test
\* steps on every dataset.
C19_Witness ==
  /\ TrainingMode /\ FLAGS.evaluation_interval = 2
  /\ initial_epoch = 0 /\ epoch = 2 /\ pc = "epoch"
  /\ Len(summaries) = 1 /\ summaries[1].step = 1
  /\ C19_HoldsEvalPass(summaries[1].total_results, 0)
  /\ eval_steps = ZeroCalls

\* The epochs a launch has to train: train_epochs - initial_epoch, none when
\* initial_epoch >= train_epochs.
C20_EpochsToRun ==
  IF initial_epoch >= FLAGS.train_epochs THEN 0
  ELSE FLAGS.train_epochs - initial_epoch

\* C20: a training-mode launch that has entered the epoch loop and whose
\* iterators have supplied every batch asked for stops only after exactly
\* (train_epochs - initial_epoch) * steps_per_epoch train steps and the save
\* of the final model.
C20_TrainingRunCompletes ==
  ( /\ TrainingMode
    /\ train_iterator /= NoIterator
    /\ ~ train_iterator.exhausted /\ ~ test_iterator.exhausted
    /\ pc \in {"done", "aborted"} ) =>
      /\ pc = "done"
      /\ saved_model
      /\ train_steps = C20_EpochsToRun * steps_per_epoch

\* The accumulators whose contents the step changes.
C21_Changed == { n \in DOMAIN metrics : metrics'[n] /= metrics[n] }

\* The four train/* accumulators, and the accumulators of dataset d: of the
\* test/ and test_collab_acc/ ones, the unsuffixed for 'ind' and those
\* suffixed by d otherwise.
C21_TrainAccumulators ==
  { << n, "", "" >> : n \in { "train/accuracy", "train/ece", "train/loss",
                              "train/negative_log_likelihood" } }
C21_AccumulatorsOf(d) ==
  { n \in DOMAIN metrics \ C21_TrainAccumulators :
      n[3] = (IF d = "ind" THEN "" ELSE d) }

\* C21: a test_step on dataset d updates only d's own accumulators and
\* leaves the train/* ones and those of the other datasets unchanged; a
\* train_step updates only the four train/* accumulators.
C21_StepUpdatesOwnAccumulators ==
  [][ runs' = runs =>
        /\ \A d \in DatasetNames :
             eval_steps'[d] = eval_steps[d] + 1 =>
               /\ C21_Changed /= {}
               /\ C21_Changed \subseteq C21_AccumulatorsOf(d)
               /\ \A n \in C21_Changed : Len(metrics'[n]) = Len(metrics[n]) + 1
        /\ train_steps' = train_steps + 1 =>
             /\ C21_Changed = C21_TrainAccumulators
             /\ \A n \in C21_Changed : Len(metrics'[n]) = Len(metrics[n]) + 1
    ]_vars

\* C21 witness: during the evaluation of 'ood' the accumulators of 'ind' and
\* the train/* ones hold what the earlier steps put there, those of
\* 'ood_identity' nothing.
C21_Witness ==
  /\ pc = "test_step" /\ dataset_builders[ds_index] = "ood" /\ step = 1
  /\ metrics[<< "test/nll", "", "ood" >>] /= << >>
  /\ metrics[<< "test/nll", "", "" >>] /= << >>
  /\ metrics[<< "train/loss", "", "" >>] /= << >>
  /\ metrics[<< "test/nll", "", "ood_identity" >>] = << >>

\* A path flag is empty when it is unset or the empty string.
C22_Empty(x) == x \in {None, ""}

\* The launch has called resolve_bert_ckpt_and_config_dir.
C22_Called == pc \notin {"validate", "rejected", "main"}

\* C22: resolve_bert_ckpt_and_config_dir raises ValueError if and only if
\* bert_dir is empty and bert_ckpt_dir or bert_config_dir is empty; otherwise
\* it returns (config, ckpt), a given path unchanged and a missing one as
\* bert_dir/bert_config.json or bert_dir/bert_model.ckpt.
C22_ResolveBertDirs ==
  C22_Called =>
    LET raises == /\ C22_Empty(FLAGS.bert_dir)
                  /\ (C22_Empty(FLAGS.bert_ckpt_dir)
                        \/ C22_Empty(FLAGS.bert_config_dir))
        config == IF C22_Empty(FLAGS.bert_config_dir)
                  THEN << FLAGS.bert_dir, "bert_config.json" >>
                  ELSE << FLAGS.bert_config_dir >>
        ckpt == IF C22_Empty(FLAGS.bert_ckpt_dir)
                THEN << FLAGS.bert_dir, "bert_model.ckpt" >>
                ELSE << FLAGS.bert_ckpt_dir >>
    IN  /\ ResolvedBert.raised = raises
        /\ raises => pc = "aborted" /\ ~ model.built
        /\ ~ raises =>
             /\ model.built
             /\ ResolvedBert.config = config /\ ResolvedBert.ckpt = ckpt
             /\ loaded_bert => model.encoder = ckpt

\* The launch with bert_dir and a ckpt path given and the config path empty
\* has loaded the encoder from the given path, the config path being the
\* default under bert_dir.
C22_Returned ==
  /\ loaded_bert /\ model.encoder = << "ckpt" >>
  /\ FLAGS.bert_dir = "bert" /\ FLAGS.bert_config_dir = ""
  /\ ResolvedBert.config = << "bert", "bert_config.json" >>

\* C22 witness: a launch with an empty bert_dir, a ckpt path and no config
\* path has been ended by the ValueError before the model was built.
C22_Witness ==
  /\ pc = "aborted" /\ ~ model.built
  /\ FLAGS.bert_dir = "" /\ FLAGS.bert_config_dir = None
  /\ FLAGS.bert_ckpt_dir = "ckpt"

\* C23: every checkpoint a training run writes is taken at an epoch boundary
\* and its optimizer step counter is a multiple of steps_per_epoch; a launch
\* resumed from it starts at the first epoch the counter has not covered, so
\* that the counter goes on without a step counted twice or left out, and at
\* completion the steps of the checkpoint and of the resumed launch together
\* number train_epochs * steps_per_epoch.
C23_ResumeAtEpochBoundary ==
  TrainingMode =>
    /\ \A i \in DOMAIN fs.output_dir :
         LET ckpt == fs.output_dir[i]
         IN  /\ ckpt.optimizer.iterations % StepsPerEpoch = 0
             /\ ckpt.optimizer.iterations \div StepsPerEpoch \in 1..FLAGS.train_epochs
             /\ Len(ckpt.model.weights) = ckpt.optimizer.iterations
    /\ PastLookup =>
         /\ optimizer.iterations = initial_epoch * steps_per_epoch + train_steps
         /\ Len(model.weights) = optimizer.iterations
    /\ pc = "epoch" => optimizer.iterations = epoch * steps_per_epoch
    /\ pc = "done" =>
         /\ initial_epoch * steps_per_epoch + train_steps
              = FLAGS.train_epochs * steps_per_epoch
         /\ optimizer.iterations = FLAGS.train_epochs * steps_per_epoch

\* C23 witness: a launch resumed from the checkpoint of the first of three
\* two-step epochs has trained the other two and completed.
C23_Witness ==
  /\ TrainingMode /\ pc = "done" /\ restored /\ runs > 1
  /\ steps_per_epoch = 2 /\ FLAGS.train_epochs = 3
  /\ initial_epoch = 1 /\ train_steps = 4
  /\ optimizer.iterations = 6

\* The example a row comes from: the dataset and the position of its batch.
C24_ExampleOf(row) == << row[2], row[3] >>

\* The arrays of the parallel arrays `arrays` have the same number of rows
\* and row i of each comes from the same example.
C24_Aligned(arrays) ==
  \A a, b \in DOMAIN arrays :
    /\ Len(arrays[a]) = Len(arrays[b])
    /\ \A i \in DOMAIN arrays[a] :
         C24_ExampleOf(arrays[a][i]) = C24_ExampleOf(arrays[b][i])

\* The lists main appends to while it reads a dataset, by name.
C24_Lists ==
  [ l \in {"texts", "logits", "labels"} \cup DOMAIN additional_labels_all_dict |->
      IF l = "texts" THEN texts_all
      ELSE IF l = "logits" THEN logits_all
      ELSE IF l = "labels" THEN labels_all
      ELSE additional_labels_all_dict[l] ]

\* The arrays exported for dataset d, by name.
C24_Exported(d) ==
  LET stacked == IF << "additional_labels", d >> \in DOMAIN saved_predictions
                 THEN saved_predictions[<< "additional_labels", d >>]
                 ELSE << >>
  IN  [ l \in {"texts", "logits", "labels"}
              \cup { _IDENTITY_LABELS[k] : k \in DOMAIN stacked } |->
          IF l \in {"texts", "logits", "labels"}
          THEN saved_predictions[<< l, d >>]
          ELSE stacked[CHOOSE k \in DOMAIN stacked : _IDENTITY_LABELS[k] = l] ]

C25_Floor(d) ==
  CHOOSE q \in 0..ds_info.num_test_examples[d] :
    /\ q * FLAGS.per_core_batch_size * FLAGS.num_cores
          <= ds_info.num_test_examples[d]
    /\ (q + 1) * FLAGS.per_core_batch_size * FLAGS.num_cores
          > ds_info.num_test_examples[d]

\* C25: every evaluation pass over a dataset d starts from a fresh iterator
\* at d's first batch, its k-th step reads d's k-th batch, and a pass that is
\* over has run exactly floor(num_test_examples / test_batch_size) steps;
\* the training iterator is created once per launch and only advances, so
\* that in a launch that starts at epoch 0 the steps of epoch e read the
\* batches e * steps_per_epoch onwards, those after the batches of epoch
\* e - 1.
C25_IteratorsFreshOrShared ==
  /\ []( /\ pc \in {"test_step", "final_eval"} =>
             LET d == dataset_builders[ds_index]
             IN  /\ test_iterator.name = d
                 /\ steps_per_eval[d] = C25_Floor(d)
                 /\ step <= steps_per_eval[d]
                 /\ ~ test_iterator.exhausted => test_iterator.pos = step
          /\ (TrainingMode /\ pc \in {"epoch", "train_step"} \cup AfterTrainSteps) =>
               /\ train_iterator.name = "train"
               /\ train_iterator.pos = train_steps
               /\ pc = "train_step" =>
                    train_steps = (epoch - initial_epoch) * steps_per_epoch + step )
  /\ [][ runs' = runs =>
          /\ (pc \in {"test_step", "final_eval"} /\ ds_index' /= ds_index) =>
               /\ step = C25_Floor(dataset_builders[ds_index])
               /\ TrainingMode =>
                    eval_steps[dataset_builders[ds_index]]
                      = C25_Floor(dataset_builders[ds_index])
          /\ (pc' \in {"test_step", "final_eval"} /\ pc' /= pc) =>
               /\ test_iterator'.name = dataset_builders[ds_index]
               /\ test_iterator'.pos = 0 /\ ~ test_iterator'.exhausted
          /\ train_iterator' /= train_iterator =>
               \/ /\ train_iterator = NoIterator /\ train_steps = 0
                  /\ train_iterator'.name = "train" /\ train_iterator'.pos = 0
               \/ /\ train_iterator'.name = train_iterator.name
                  /\ train_iterator'.pos >= train_iterator.pos
          /\ train_steps' = train_steps + 1 =>
               /\ train_iterator'.pos = train_iterator.pos + 1
               /\ model'.weights =
                    Append(model.weights,
                           << "train", (epoch - initial_epoch) * steps_per_epoch
                                         + step >>)
    ]_vars

\* C25 witness: a launch started at epoch 0 is in the second step of epoch
\* 1, after an evaluation of epoch 0 with two steps on 'ind': the steps of
\* epoch 0 read batches 0 and 1, the first step of epoch 1 batch 2.
C25_Witness ==
  /\ TrainingMode /\ ~ restored /\ pc = "train_step"
  /\ epoch = 1 /\ step = 1 /\ steps_per_epoch = 2
  /\ train_iterator.pos = 3
  /\ model.weights = << << "train", 0 >>, << "train", 1 >>, << "train", 2 >> >>
  /\ eval_steps["ind"] = 2
  /\ test_iterator.name = "ood_identity"
====
